---------------------------- MODULE Spec2Model ----------------------------
(***************************************************************************)
(* The Flowchart component (src/unnamed/part_000, first revision, lines    *)
(* 1-451): a task table loaded from a CSV resource, filtered, turned into  *)
(* a node/edge graph, laid out and displayed; completion toggles are       *)
(* written back to the row store and persisted in localStorage.            *)
(*                                                                         *)
(* Strings are sequences over a small alphabet.  Two letters of the        *)
(* alphabet are the space and the pipe; every other letter is an opaque    *)
(* symbol ("A", "done", "Setup", ...).  trim, split, toLowerCase, includes *)
(* and === act letter by letter, as in the source.  A cell that the CSV    *)
(* leaves out (undefined) is the empty string: the source reads every cell *)
(* through `x || default`, which treats the two alike.                     *)
(*                                                                         *)
(* Arrays that the source only reads through includes() and length         *)
(* (selectedStages, selectedSections, selectedTags, allSections, allTags)  *)
(* are the sets of their elements.                                         *)
(*                                                                         *)
(* Row ids are unique within a data source, the data model's stated        *)
(* assumption (spec section 3).                                            *)
(***************************************************************************)
EXTENDS Naturals, Sequences, FiniteSets, TLC

Space == " "
Pipe == "|"

(***************************************************************************)
(* String primitives of the JavaScript runtime.                            *)
(***************************************************************************)
RECURSIVE trimStart(_)
trimStart(s) ==
    IF s # <<>> /\ Head(s) = Space THEN trimStart(Tail(s)) ELSE s

RECURSIVE trimEnd(_)
trimEnd(s) ==
    IF s # <<>> /\ s[Len(s)] = Space
    THEN trimEnd(SubSeq(s, 1, Len(s) - 1))
    ELSE s

trim(s) == trimEnd(trimStart(s))

\* s.split("|"): the pieces between pipes; "" splits into one empty piece.
RECURSIVE split(_)
split(s) ==
    IF \A i \in 1..Len(s) : s[i] # Pipe
    THEN <<s>>
    ELSE LET i == CHOOSE k \in 1..Len(s) :
                      s[k] = Pipe /\ \A j \in 1..(k - 1) : s[j] # Pipe
         IN  <<SubSeq(s, 1, i - 1)>> \o split(SubSeq(s, i + 1, Len(s)))

toLowerCase(c) ==
    CASE c = "A" -> "a"
      [] c = "B" -> "b"
      [] c = "C" -> "c"
      [] c = "X" -> "x"
      [] c = "Setup" -> "setup"
      [] c = "Start" -> "start"
      [] c = "Early" -> "early"
      [] c = "Late" -> "late"
      [] c = "Unsorted" -> "unsorted"
      [] c = "General" -> "general"
      [] c = "Sec" -> "sec"
      [] c = "New" -> "new"
      [] OTHER -> c

\* hay.includes(q): q occurs in hay as a contiguous piece.
includes(hay, q) ==
    \E i \in 0..Len(hay) :
        /\ i + Len(q) <= Len(hay)
        /\ \A j \in 1..Len(q) : hay[i + j] = q[j]

\* parts.join(" ")
RECURSIVE join(_)
join(parts) ==
    IF parts = <<>> THEN <<>>
    ELSE IF Len(parts) = 1 THEN parts[1]
    ELSE parts[1] \o <<Space>> \o join(Tail(parts))

Range(f) == {f[i] : i \in DOMAIN f}

(***************************************************************************)
(* Module-level helpers and constants of the component.                    *)
(***************************************************************************)
DONE == <<"done">>
TODO == <<"todo">>
General == <<"General">>
Unsorted == <<"Unsorted">>

STAGE_ORDER == << <<"Setup">>, <<"Start">>, <<"Early">>, <<"Late">> >>

localKey(csvUrl) == <<"stellaris-flow-status:">> \o csvUrl

ci(s) == [i \in 1..Len(s) |-> toLowerCase(s[i])]

\* x || fallback on strings: the empty string is falsy.
OrElse(x, fallback) == IF x = <<>> THEN fallback ELSE x

list(s) ==
    LET pieces == split(s)
        trimmed == [i \in 1..Len(pieces) |-> trim(pieces[i])]
        NonEmpty(t) == t # <<>>
    IN  SelectSeq(trimmed, NonEmpty)

(***************************************************************************)
(* Plain objects and JSON.  An object is its keys in insertion order and   *)
(* the value at each key; its JSON text is the sequence of its members.    *)
(* A missing property reads as undefined, which is falsy like "".          *)
(***************************************************************************)
EmptyObject == [keys |-> <<>>, at |-> <<>>]

setProp(obj, k, v) ==
    [keys |-> IF k \in Range(obj.keys) THEN obj.keys ELSE Append(obj.keys, k),
     at   |-> [x \in (DOMAIN obj.at) \cup {k} |-> IF x = k THEN v ELSE obj.at[x]]]

getProp(obj, k) == IF k \in DOMAIN obj.at THEN obj.at[k] ELSE <<>>

JSONstringify(obj) ==
    [i \in 1..Len(obj.keys) |-> <<obj.keys[i], obj.at[obj.keys[i]]>>]

RECURSIVE JSONparse(_)
JSONparse(text) ==
    IF text = <<>> THEN EmptyObject
    ELSE LET m == text[Len(text)]
         IN  setProp(JSONparse(SubSeq(text, 1, Len(text) - 1)), m[1], m[2])

\* localStorage is the function from the keys written so far to their texts.
getItem(storage, key) ==
    IF key \in DOMAIN storage THEN storage[key] ELSE <<>>

setItem(storage, key, text) ==
    [k \in (DOMAIN storage) \cup {key} |-> IF k = key THEN text ELSE storage[k]]

(***************************************************************************)
(* The data sources.  A record of a CSV resource has the columns           *)
(* id, title, section, stage, description, depends_on, status, tags        *)
(* (priority is display-only and left out).                                *)
(***************************************************************************)
Record(id, title, section, stage, depends_on, status, tags) ==
    [id |-> id, title |-> title, section |-> section, stage |-> stage,
     description |-> <<>>, depends_on |-> depends_on, status |-> status,
     tags |-> tags]

U1 == <<"/flow.csv">>
U2 == <<"/other.csv">>
Urls == {U1, U2}

\* depends_on cells of the two records of U1
DepCellsA == { <<>>, <<"B">>, <<"A">>, <<"X">> }
DepCellsB == { <<"A">>, <<"A", "|", "A">>, <<" ", "A", " ", "|", "|", "X">> }
\* status cells of the first record of U1: absent, done, blank, free text
StatusCellsA == { <<>>, <<"done">>, <<" ">>, <<"wip">> }

DataU1(depA, depB, statusA) ==
    << Record(<<"A">>, <<"A">>, <<>>, <<"Setup">>, depA, statusA, <<"t">>),
       Record(<<" ", "B">>, <<"B", " ">>, <<"Sec">>, <<"Start">>, depB, <<>>, <<>>) >>

DataU2 ==
    << Record(<<"A">>, <<"A">>, <<"New">>, <<"Setup">>, <<>>, <<>>, <<>>),
       Record(<<"C">>, <<"C">>, <<>>, <<>>, <<"A">>, <<"done">>, <<"t", "|", "u">>) >>

\* The resources U1 may hold: every pairing of the depends_on cells with an
\* absent status cell, every status cell with the plain chain A -> B, and
\* a resource whose first record has a blank id cell.
DataBlankId ==
    << Record(<<" ">>, <<"A">>, <<>>, <<"Setup">>, <<>>, <<>>, <<"t">>),
       Record(<<"B">>, <<"B">>, <<"Sec">>, <<"Start">>, <<"A">>, <<>>, <<>>) >>

DataSetsU1 ==
    {DataU1(a, b, <<>>) : a \in DepCellsA, b \in DepCellsB}
        \cup {DataU1(<<>>, <<"A">>, st) : st \in StatusCellsA}
        \cup {DataBlankId}

\* Three-record resources for U1: a chain, a fork, a join and a cycle.
ChainDepB == { <<"A">>, <<"C">> }
ChainDepC == { <<"B">>, <<"A">>, <<"A", "|", "B">> }

DataChain(depB, depC) ==
    << Record(<<"A">>, <<"A">>, <<>>, <<"Setup">>, <<>>, <<>>, <<"t">>),
       Record(<<"B">>, <<"B">>, <<>>, <<"Start">>, depB, <<>>, <<>>),
       Record(<<"C">>, <<"C">>, <<"Sec">>, <<"Early">>, depC, <<>>, <<"t">>) >>

DataSetsChain == {DataChain(b, c) : b \in ChainDepB, c \in ChainDepC}

\* what the user types in the search box
Queries == { <<>>, <<"A">>, <<"sec">> }

(***************************************************************************)
(* State.                                                                  *)
(***************************************************************************)
VARIABLES
    files,              \* the CSV resource behind each URL
    localStorage,       \* the browser's key-value store
    csvUrl,             \* the component's prop
    rawRows,            \* useState: the row store
    layoutDir,          \* useState: "LR" | "TB"
    onlyNextActionable, \* useState
    query,              \* useState
    statusFilter,       \* useState: "all" | "todo" | "done"
    selectedStages,     \* useState
    selectedSections,   \* useState
    selectedTags,       \* useState
    nodes,              \* useNodesState: the displayed nodes
    edges,              \* useEdgesState: the displayed edges
    handlerRows,        \* the rawRows that the displayed nodes' onChange
                        \* handlers have closed over
    loading,            \* URLs whose Papa.parse download is in flight
    dirty,              \* what changed since the effects last ran:
                        \* "rawRows", "csvUrl", "layoutDir", "view" (filters)
    batch,              \* events handled since the effects last ran
    uiOps,              \* filter, layout, URL and reload events so far
    sectionsDefaulted   \* the default-sections effect has set the selection
                        \* since the component was mounted

vars == <<files, localStorage, csvUrl, rawRows, layoutDir, onlyNextActionable,
          query, statusFilter, selectedStages, selectedSections, selectedTags,
          nodes, edges, handlerRows, loading, dirty, batch, uiOps, sectionsDefaulted>>

filterVars == <<onlyNextActionable, query, statusFilter, selectedStages,
                selectedSections, selectedTags>>

\* Events handled while a re-layout is still pending.
MaxBatch == 2
\* Filter, layout, URL and reload events in one run (checkbox events and
\* load completions are not counted).
MaxUiOps == 2

(***************************************************************************)
(* Load CSV: the complete callback (lines 73-84).                          *)
(***************************************************************************)
loadedRow(r) ==
    [r EXCEPT !.id = trim(OrElse(r.id, <<>>)),
              !.title = trim(OrElse(r.title, <<>>)),
              !.stage = trim(OrElse(r.stage, Unsorted)),
              !.status = trim(OrElse(r.status, TODO))]

loadedRows(data) == [i \in 1..Len(data) |-> loadedRow(data[i])]

merged(rows, saved) ==
    [i \in 1..Len(rows) |->
        IF getProp(saved, rows[i].id) # <<>>
        THEN [rows[i] EXCEPT !.status = getProp(saved, rows[i].id)]
        ELSE rows[i]]

\* what a load of url under the given storage puts in the row store
loadResult(url, storage) ==
    merged(loadedRows(files[url]),
           JSONparse(OrElse(getItem(storage, localKey(url)), <<>>)))

(***************************************************************************)
(* Persist status: the object the effect builds (lines 91-92).             *)
(***************************************************************************)
RECURSIVE statusMap(_)
statusMap(rows) ==
    IF rows = <<>> THEN EmptyObject
    ELSE LET r == rows[Len(rows)]
         IN  setProp(statusMap(SubSeq(rows, 1, Len(rows) - 1)),
                     r.id, OrElse(r.status, TODO))

(***************************************************************************)
(* Filter chips (lines 97-117).                                            *)
(***************************************************************************)
allSections(rows) == {OrElse(rows[i].section, General) : i \in DOMAIN rows}

allTags(rows) == UNION {Range(list(rows[i].tags)) : i \in DOMAIN rows}

toggle(arr, value) ==
    IF value \in arr THEN arr \ {value} ELSE arr \cup {value}

(***************************************************************************)
(* buildGraph (lines 141-234), as a function of the rawRows it closes      *)
(* over; the filter values are read from the state.                        *)
(***************************************************************************)
depsOf(r) == list(r.depends_on)

completed_Inverted(rows) ==
    {rows[i].id : i \in {j \in DOMAIN rows : rows[j].status # DONE}}

completed(rows) == {rows[i].id : i \in {j \in DOMAIN rows : rows[j].status = DONE}}

actionable_AnyDep(rows) ==
    {rows[i].id : i \in {j \in DOMAIN rows :
        /\ rows[j].status # DONE
        /\ \/ depsOf(rows[j]) = <<>>
           \/ \E d \in Range(depsOf(rows[j])) : d \in completed(rows)}}

actionable_KnownDeps(rows) ==
    {rows[i].id : i \in {j \in DOMAIN rows :
        /\ rows[j].status # DONE
        /\ \A d \in Range(depsOf(rows[j])) :
              d \in {rows[k].id : k \in DOMAIN rows} => d \in completed(rows)}}

actionable_IgnoresStatus(rows) ==
    {rows[i].id : i \in {j \in DOMAIN rows :
        \A d \in Range(depsOf(rows[j])) : d \in completed(rows)}}

actionable(rows) ==
    {rows[i].id : i \in {j \in DOMAIN rows :
        /\ rows[j].status # DONE
        /\ \A d \in Range(depsOf(rows[j])) : d \in completed(rows)}}

\* okStatus for a value of the status selector
statusPasses_TodoLiteral(filter, r) ==
    IF filter = "all" THEN TRUE
    ELSE IF filter = "todo" THEN r.status = TODO
    ELSE r.status = DONE

statusPasses(filter, r) ==
    IF filter = "all" THEN TRUE
    ELSE IF filter = "todo" THEN r.status # DONE
    ELSE r.status = DONE

okStatus(r) == statusPasses(statusFilter, r)

okStage_OrOutsideEnum(r) ==
    \/ OrElse(r.stage, <<>>) \in selectedStages
    \/ r.stage \notin Range(STAGE_ORDER)

okStage(r) == OrElse(r.stage, <<>>) \in selectedStages

okSection(r) == OrElse(r.section, General) \in selectedSections

okTags_Strict(r) == \E t \in Range(list(r.tags)) : t \in selectedTags

okTags(r) ==
    IF selectedTags = {} THEN TRUE
    ELSE \E t \in Range(list(r.tags)) : t \in selectedTags

okSearch(r) ==
    LET q == ci(query)
    IN  IF q = <<>> THEN TRUE
        ELSE LET hay == join(<<ci(r.title), ci(r.description), ci(r.section),
                                ci(r.stage), ci(r.tags)>>)
             IN  includes(hay, q)

visibleRows_AlwaysActionable(rows) ==
    LET ok(r) == okStatus(r) /\ okStage(r) /\ okSection(r) /\ okTags(r) /\ okSearch(r)
        isActionable(r) == r.id \in actionable(rows)
    IN  SelectSeq(SelectSeq(rows, ok), isActionable)

visibleRows(rows) ==
    LET ok(r) == okStatus(r) /\ okStage(r) /\ okSection(r) /\ okTags(r) /\ okSearch(r)
        isActionable(r) == r.id \in actionable(rows)
        passed == SelectSeq(rows, ok)
    IN  IF onlyNextActionable THEN SelectSeq(passed, isActionable) ELSE passed

visibleIds(rows) == {visibleRows(rows)[i].id : i \in DOMAIN visibleRows(rows)}

edgesOf(r, ids) ==
    LET isVisible(dep) == dep \in ids
        deps == SelectSeq(depsOf(r), isVisible)
    IN  [i \in 1..Len(deps) |->
            [id |-> deps[i] \o <<"->">> \o r.id, source |-> deps[i], target |-> r.id]]

RECURSIVE flatEdges(_, _)
flatEdges(rows, ids) ==
    IF rows = <<>> THEN <<>>
    ELSE edgesOf(Head(rows), ids) \o flatEdges(Tail(rows), ids)

edgesBuilt_AnyEnd(rows) ==
    flatEdges(visibleRows(rows), {rows[i].id : i \in DOMAIN rows})

edgesBuilt(rows) == flatEdges(visibleRows(rows), visibleIds(rows))

\* a node carries the row its label was rendered from
nodesBuilt(rows) ==
    LET vis == visibleRows(rows)
    IN  [i \in 1..Len(vis) |-> [id |-> vis[i].id, r |-> vis[i]]]

\* the checkbox onChange handler of a node built from rows (lines 210-213)
onChange(rows, id, checked) ==
    [i \in 1..Len(rows) |->
        IF rows[i].id = id
        THEN [rows[i] EXCEPT !.status = IF checked THEN DONE ELSE TODO]
        ELSE rows[i]]

\* what the memo returns for the current render (line 233)
buildGraph ==
    [nodesBuilt |-> nodesBuilt(rawRows), edgesBuilt |-> edgesBuilt(rawRows)]

(***************************************************************************)
(* Layout tunables (lines 10-14) and the graph margins (lines 246-247).    *)
(***************************************************************************)
NODE_W == 320
NODE_H == 130
RANK_SEP == 200
NODE_SEP == 80
MARGIN == 40

(***************************************************************************)
(* The graph handed to dagre (lines 241-253): the rankdir option, a node   *)
(* per built node (setNode) and an edge per built edge (setEdge; the graph *)
(* is not a multigraph, so setting an edge twice leaves one edge).         *)
(* setEdge creates an end that was not set as a node, without a label.     *)
(***************************************************************************)
dagreInput_Reversed(built, es, dir) ==
    [rankdir  |-> dir,
     labelled |-> [i \in 1..Len(built) |-> built[i].id],
     edges    |-> {<<es[i].target, es[i].source>> : i \in DOMAIN es}]

dagreInput(built, es, dir) ==
    [rankdir  |-> dir,
     labelled |-> [i \in 1..Len(built) |-> built[i].id],
     edges    |-> {<<es[i].source, es[i].target>> : i \in DOMAIN es}]

graphNodes(g) ==
    Range(g.labelled) \cup {e[1] : e \in g.edges} \cup {e[2] : e \in g.edges}

(***************************************************************************)
(* dagre.layout, from its contract (spec 4.4): self-loops are set aside,   *)
(* the edges that lie on a cycle are turned to run from the earlier to the *)
(* later node, a node's rank is its longest-path distance from the         *)
(* sources, the nodes of a rank are placed in their input order, and the   *)
(* rank axis is x for "LR" and y for "TB".  Positions are box centres.     *)
(***************************************************************************)
RECURSIVE dagrePath(_, _, _, _)
dagrePath(E, a, b, n) ==
    /\ n > 0
    /\ \/ <<a, b>> \in E
       \/ \E e \in E : e[1] = a /\ dagrePath(E, e[2], b, n - 1)

dagreIndex(g, v) == CHOOSE i \in DOMAIN g.labelled : g.labelled[i] = v

dagreAcyclic(g) ==
    LET E == {e \in g.edges : e[1] # e[2]}
        n == Cardinality(graphNodes(g))
    IN  {IF dagrePath(E, e[2], e[1], n) /\ dagreIndex(g, e[1]) > dagreIndex(g, e[2])
         THEN <<e[2], e[1]>> ELSE e : e \in E}

RECURSIVE dagreRank(_, _)
dagreRank(E, v) ==
    LET preds == {e[1] : e \in {x \in E : x[2] = v}}
        ranks == {dagreRank(E, u) : u \in preds}
    IN  IF preds = {} THEN 0
        ELSE 1 + CHOOSE m \in ranks : \A k \in ranks : k <= m

dagreOrder(g, E, v) ==
    Cardinality({i \in DOMAIN g.labelled :
        /\ i < dagreIndex(g, v)
        /\ dagreRank(E, g.labelled[i]) = dagreRank(E, v)})

\* g.node(v) after dagre.layout(g)
dagreLayout(g, v) ==
    LET E == dagreAcyclic(g)
        alongW == MARGIN + dagreRank(E, v) * (NODE_W + RANK_SEP) + (NODE_W \div 2)
        alongH == MARGIN + dagreRank(E, v) * (NODE_H + RANK_SEP) + (NODE_H \div 2)
        acrossW == MARGIN + dagreOrder(g, E, v) * (NODE_W + NODE_SEP) + (NODE_W \div 2)
        acrossH == MARGIN + dagreOrder(g, E, v) * (NODE_H + NODE_SEP) + (NODE_H \div 2)
    IN  IF g.rankdir = "LR"
        THEN [x |-> alongW, y |-> acrossH]
        ELSE [x |-> acrossW, y |-> alongH]

(***************************************************************************)
(* The layout effect's mapping back to React Flow (lines 256-270).         *)
(***************************************************************************)
laidOutNodes(built, es, dir) ==
    LET g == dagreInput(built, es, dir)
    IN  [i \in 1..Len(built) |->
            [id |-> built[i].id, r |-> built[i].r,
             position |-> [x |-> dagreLayout(g, built[i].id).x - (NODE_W \div 2),
                           y |-> dagreLayout(g, built[i].id).y - (NODE_H \div 2)],
             sourcePosition |-> IF dir = "LR" THEN "Right" ELSE "Bottom",
             targetPosition |-> IF dir = "LR" THEN "Left" ELSE "Top"]]

(***************************************************************************)
(* The state after construction: the useState initial values (lines        *)
(* 38-51), empty storage, and the mount effect's download in flight.       *)
(***************************************************************************)
Mounted ==
    /\ rawRows = <<>>
    /\ layoutDir = "LR"
    /\ onlyNextActionable = FALSE
    /\ query = <<>>
    /\ statusFilter = "all"
    /\ selectedStages = Range(STAGE_ORDER)
    /\ selectedSections = {}
    /\ selectedTags = {}
    /\ nodes = <<>>
    /\ edges = <<>>
    /\ handlerRows = <<>>
    /\ dirty = {}
    /\ batch = 0
    /\ sectionsDefaulted = FALSE

Init ==
    /\ files \in {[u \in Urls |-> IF u = U1 THEN d ELSE DataU2] : d \in DataSetsU1}
    /\ localStorage = <<>>
    /\ csvUrl = U1
    /\ loading = {U1}
    /\ uiOps = 0
    /\ Mounted

\* the same component over the three-record resources
InitChain ==
    /\ files \in {[u \in Urls |-> IF u = U1 THEN d ELSE DataU2] : d \in DataSetsChain}
    /\ localStorage = <<>>
    /\ csvUrl = U1
    /\ loading = {U1}
    /\ uiOps = 0
    /\ Mounted

\* the same component over two of the resources: the chain and the cycle
InitPair ==
    /\ files \in {[u \in Urls |-> IF u = U1 THEN d ELSE DataU2] :
                     d \in {DataU1(<<>>, <<"A">>, <<>>), DataU1(<<"B">>, <<"A">>, <<>>)}}
    /\ localStorage = <<>>
    /\ csvUrl = U1
    /\ loading = {U1}
    /\ uiOps = 0
    /\ Mounted

(***************************************************************************)
(* Events.  Each handler sets React state; the re-render is pure, and the  *)
(* effects it schedules run in RunEffects.  Until they have run, the       *)
(* displayed nodes keep the handlers of the render they were built in.     *)
(***************************************************************************)
Handled(changed) ==
    /\ batch < MaxBatch
    /\ batch' = batch + 1
    /\ dirty' = dirty \cup changed

\* Papa.parse's complete callback of the download of u (lines 73-84)
LoadComplete(u) ==
    /\ u \in loading
    /\ Handled({"rawRows"})
    /\ rawRows' = loadResult(u, localStorage)
    /\ loading' = loading \ {u}
    /\ UNCHANGED <<files, localStorage, csvUrl, layoutDir, filterVars, nodes,
                   edges, handlerRows, uiOps, sectionsDefaulted>>

\* the Completed checkbox of displayed node i (lines 207-214)
Checkbox(i) ==
    /\ i \in DOMAIN nodes
    /\ Handled({"rawRows"})
    /\ rawRows' = onChange(handlerRows, nodes[i].id, nodes[i].r.status # DONE)
    /\ UNCHANGED <<files, localStorage, csvUrl, layoutDir, filterVars, nodes,
                   edges, handlerRows, loading, uiOps,
                   sectionsDefaulted>>

FilterEvent ==
    /\ uiOps < MaxUiOps
    /\ uiOps' = uiOps + 1
    /\ Handled({"view"})
    /\ UNCHANGED <<files, localStorage, csvUrl, rawRows, nodes, edges,
                   handlerRows, loading, sectionsDefaulted>>

setQuery(q) ==
    /\ q # query
    /\ FilterEvent
    /\ query' = q
    /\ UNCHANGED <<layoutDir, onlyNextActionable, statusFilter, selectedStages,
                   selectedSections, selectedTags>>

setStatusFilter(v) ==
    /\ v # statusFilter
    /\ FilterEvent
    /\ statusFilter' = v
    /\ UNCHANGED <<layoutDir, onlyNextActionable, query, selectedStages,
                   selectedSections, selectedTags>>

setOnlyNextActionable(v) ==
    /\ v # onlyNextActionable
    /\ FilterEvent
    /\ onlyNextActionable' = v
    /\ UNCHANGED <<layoutDir, query, statusFilter, selectedStages,
                   selectedSections, selectedTags>>

\* a stage chip (lines 377-387)
StageChip(s) ==
    /\ FilterEvent
    /\ selectedStages' = toggle(selectedStages, s)
    /\ UNCHANGED <<layoutDir, onlyNextActionable, query, statusFilter,
                   selectedSections, selectedTags>>

\* a section chip (lines 395-405)
SectionChip(sec) ==
    /\ sec \in allSections(rawRows)
    /\ FilterEvent
    /\ selectedSections' = toggle(selectedSections, sec)
    /\ UNCHANGED <<layoutDir, onlyNextActionable, query, statusFilter,
                   selectedStages, selectedTags>>

\* the section All button (line 393)
SectionAll ==
    /\ selectedSections # allSections(rawRows)
    /\ FilterEvent
    /\ selectedSections' = allSections(rawRows)
    /\ UNCHANGED <<layoutDir, onlyNextActionable, query, statusFilter,
                   selectedStages, selectedTags>>

\* the section None button (line 394)
SectionNone ==
    /\ selectedSections # {}
    /\ FilterEvent
    /\ selectedSections' = {}
    /\ UNCHANGED <<layoutDir, onlyNextActionable, query, statusFilter,
                   selectedStages, selectedTags>>

\* a tag chip (lines 412-422)
TagChip(t) ==
    /\ t \in allTags(rawRows)
    /\ FilterEvent
    /\ selectedTags' = toggle(selectedTags, t)
    /\ UNCHANGED <<layoutDir, onlyNextActionable, query, statusFilter,
                   selectedStages, selectedSections>>

\* the tags Clear button (line 411)
TagsClear ==
    /\ selectedTags # {}
    /\ FilterEvent
    /\ selectedTags' = {}
    /\ UNCHANGED <<layoutDir, onlyNextActionable, query, statusFilter,
                   selectedStages, selectedSections>>

resetFilters_ResetsRows ==
    /\ uiOps < MaxUiOps
    /\ uiOps' = uiOps + 1
    /\ Handled({"view", "rawRows"})
    /\ rawRows' = [i \in 1..Len(rawRows) |-> [rawRows[i] EXCEPT !.status = TODO]]
    /\ query' = <<>>
    /\ statusFilter' = "all"
    /\ onlyNextActionable' = FALSE
    /\ selectedStages' = Range(STAGE_ORDER)
    /\ selectedSections' = allSections(rawRows)
    /\ selectedTags' = {}
    /\ UNCHANGED <<files, localStorage, csvUrl, layoutDir, nodes, edges,
                   handlerRows, loading, sectionsDefaulted>>

resetFilters ==
    /\ \/ query # <<>>
       \/ statusFilter # "all"
       \/ onlyNextActionable
       \/ selectedStages # Range(STAGE_ORDER)
       \/ selectedSections # allSections(rawRows)
       \/ selectedTags # {}
    /\ FilterEvent
    /\ query' = <<>>
    /\ statusFilter' = "all"
    /\ onlyNextActionable' = FALSE
    /\ selectedStages' = Range(STAGE_ORDER)
    /\ selectedSections' = allSections(rawRows)
    /\ selectedTags' = {}
    /\ UNCHANGED layoutDir

\* the Layout select (line 330)
setLayoutDir_ClearsSearch(d) ==
    /\ d # layoutDir
    /\ uiOps < MaxUiOps
    /\ uiOps' = uiOps + 1
    /\ Handled({"layoutDir"})
    /\ layoutDir' = d
    /\ query' = <<>>
    /\ UNCHANGED <<files, localStorage, csvUrl, rawRows, onlyNextActionable,
                   statusFilter, selectedStages, selectedSections,
                   selectedTags, nodes, edges, handlerRows, loading,
                   sectionsDefaulted>>

setLayoutDir(d) ==
    /\ d # layoutDir
    /\ uiOps < MaxUiOps
    /\ uiOps' = uiOps + 1
    /\ Handled({"layoutDir"})
    /\ layoutDir' = d
    /\ UNCHANGED <<files, localStorage, csvUrl, rawRows, filterVars, nodes,
                   edges, handlerRows, loading, sectionsDefaulted>>

\* the parent renders the component with another csvUrl
ChangeUrl(u) ==
    /\ u # csvUrl
    /\ uiOps < MaxUiOps
    /\ uiOps' = uiOps + 1
    /\ Handled({"csvUrl"})
    /\ csvUrl' = u
    /\ UNCHANGED <<files, localStorage, rawRows, layoutDir, filterVars, nodes,
                   edges, handlerRows, loading, sectionsDefaulted>>

\* the page is reloaded: the component is constructed again, storage stays
Remount ==
    /\ uiOps < MaxUiOps
    /\ uiOps' = uiOps + 1
    /\ loading' = {csvUrl}
    /\ rawRows' = <<>>
    /\ layoutDir' = "LR"
    /\ onlyNextActionable' = FALSE
    /\ query' = <<>>
    /\ statusFilter' = "all"
    /\ selectedStages' = Range(STAGE_ORDER)
    /\ selectedSections' = {}
    /\ selectedTags' = {}
    /\ nodes' = <<>>
    /\ edges' = <<>>
    /\ handlerRows' = <<>>
    /\ dirty' = {}
    /\ batch' = 0
    /\ sectionsDefaulted' = FALSE
    /\ UNCHANGED <<files, localStorage, csvUrl>>

(***************************************************************************)
(* The effects of the commit, in the order they are declared: Load CSV     *)
(* (68-86), Persist status (89-94), Default sections (109-113), Dagre      *)
(* layout (237-274).  The layout uses the buildGraph of this render, that  *)
(* is, the selection as it was before the default-sections effect set it.  *)
(***************************************************************************)
persistEffect(storage) ==
    IF rawRows = <<>> THEN storage
    ELSE setItem(storage, localKey(csvUrl), JSONstringify(statusMap(rawRows)))

defaultSectionsFires_Once ==
    rawRows # <<>> /\ selectedSections = {} /\ ~sectionsDefaulted

defaultSectionsFires == rawRows # <<>> /\ selectedSections = {}

RunEffects_StaleEdges ==
    /\ dirty # {}
    /\ loading' = IF "csvUrl" \in dirty THEN loading \cup {csvUrl} ELSE loading
    /\ localStorage' = IF dirty \cap {"rawRows", "csvUrl"} # {}
                       THEN persistEffect(localStorage)
                       ELSE localStorage
    /\ selectedSections' = IF defaultSectionsFires
                           THEN allSections(rawRows)
                           ELSE selectedSections
    /\ sectionsDefaulted' = (sectionsDefaulted \/ defaultSectionsFires)
    /\ \E graph \in {buildGraph} :
          /\ nodes' = laidOutNodes(graph.nodesBuilt, graph.edgesBuilt, layoutDir)
          /\ edges' = edgesBuilt(handlerRows)
    /\ handlerRows' = rawRows
    /\ dirty' = IF defaultSectionsFires THEN {"view"} ELSE {}
    /\ batch' = 0
    /\ UNCHANGED <<files, csvUrl, rawRows, layoutDir, onlyNextActionable, query,
                   statusFilter, selectedStages, selectedTags, uiOps>>

RunEffects ==
    /\ dirty # {}
    /\ loading' = IF "csvUrl" \in dirty THEN loading \cup {csvUrl} ELSE loading
    /\ localStorage' = IF dirty \cap {"rawRows", "csvUrl"} # {}
                       THEN persistEffect(localStorage)
                       ELSE localStorage
    /\ selectedSections' = IF defaultSectionsFires
                           THEN allSections(rawRows)
                           ELSE selectedSections
    /\ sectionsDefaulted' = (sectionsDefaulted \/ defaultSectionsFires)
    /\ \E graph \in {buildGraph} :
          /\ nodes' = laidOutNodes(graph.nodesBuilt, graph.edgesBuilt, layoutDir)
          /\ edges' = graph.edgesBuilt
    /\ handlerRows' = rawRows
    /\ dirty' = IF defaultSectionsFires THEN {"view"} ELSE {}
    /\ batch' = 0
    /\ UNCHANGED <<files, csvUrl, rawRows, layoutDir, onlyNextActionable, query,
                   statusFilter, selectedStages, selectedTags, uiOps>>

Next ==
    \/ \E u \in Urls : LoadComplete(u)
    \/ \E i \in DOMAIN nodes : Checkbox(i)
    \/ \E q \in Queries : setQuery(q)
    \/ \E v \in {"all", "todo", "done"} : setStatusFilter(v)
    \/ \E v \in BOOLEAN : setOnlyNextActionable(v)
    \/ \E s \in Range(STAGE_ORDER) : StageChip(s)
    \/ \E sec \in allSections(rawRows) : SectionChip(sec)
    \/ SectionAll
    \/ SectionNone
    \/ \E t \in allTags(rawRows) : TagChip(t)
    \/ TagsClear
    \/ resetFilters
    \/ \E d \in {"LR", "TB"} : setLayoutDir(d)
    \/ \E u \in Urls : ChangeUrl(u)
    \/ Remount
    \/ RunEffects

Spec == Init /\ [][Next]_vars

SpecChain == InitChain /\ [][Next]_vars

\* React runs the effects of every commit it has scheduled.
FairSpec == InitPair /\ [][Next]_vars /\ WF_vars(RunEffects)

(***************************************************************************)
(* Vocabulary of the properties.                                           *)
(***************************************************************************)
rowIds(rows) == {rows[i].id : i \in DOMAIN rows}

\* The dependency ids of a row, read off its depends_on cell: the non-empty
\* trimmed texts of the maximal pipe-free stretches of the cell.
DepIds(r) ==
    LET c == r.depends_on
        stretch(i, j) ==
            /\ i = 1 \/ c[i - 1] = Pipe
            /\ j = Len(c) \/ c[j + 1] = Pipe
            /\ \A k \in i..j : c[k] # Pipe
    IN  {trim(SubSeq(c, i, j)) : <<i, j>> \in
            {p \in (1..Len(c)) \X (1..Len(c)) : p[1] <= p[2] /\ stretch(p[1], p[2])}}
        \ {<<>>}

isDone(r) == r.status = DONE

\* row i depends on row j
DependsOn(rows, i, j) == rows[j].id \in DepIds(rows[i])

\* row j is reached from row i along at least one and at most n dependencies
RECURSIVE Reaches(_, _, _, _)
Reaches(rows, i, j, n) ==
    /\ n > 0
    /\ \/ DependsOn(rows, i, j)
       \/ \E k \in DOMAIN rows : DependsOn(rows, i, k) /\ Reaches(rows, k, j, n - 1)

OnCycle(rows, i) == Reaches(rows, i, i, Len(rows))

\* the rows that share a cycle with row i
CycleOf(rows, i) ==
    {j \in DOMAIN rows : j = i \/ (Reaches(rows, i, j, Len(rows)) /\ Reaches(rows, j, i, Len(rows)))}

edgePairs(es) == {<<es[i].source, es[i].target>> : i \in DOMAIN es}

nodeIds(ns) == {ns[i].id : i \in DOMAIN ns}

\* a is b with some elements left out (the elements of b are distinct)
IsSubList(a, b) ==
    LET kept(x) == x \in Range(a)
    IN  a = SelectSeq(b, kept)

(***************************************************************************)
(* C1: in every state of the row store the actionable set is exactly the   *)
(* ids of the rows that are not done and whose every dependency id is the  *)
(* id of a done row; a row with no dependency is actionable iff it is not  *)
(* done, and no done row is actionable.                                    *)
(***************************************************************************)
C1_ActionableExact ==
    /\ actionable(rawRows) =
          {rawRows[i].id : i \in {j \in DOMAIN rawRows :
              /\ ~isDone(rawRows[j])
              /\ \A d \in DepIds(rawRows[j]) :
                    \E k \in DOMAIN rawRows : rawRows[k].id = d /\ isDone(rawRows[k])}}
    /\ \A i \in DOMAIN rawRows :
          DepIds(rawRows[i]) = {} =>
              (rawRows[i].id \in actionable(rawRows) <=> ~isDone(rawRows[i]))
    /\ \A i \in DOMAIN rawRows :
          isDone(rawRows[i]) => rawRows[i].id \notin actionable(rawRows)

\* Scenario 1: A is done, B depends on A and is not done, and B alone is
\* actionable.
C1_Witness ==
    /\ Len(rawRows) = 2
    /\ isDone(rawRows[1])
    /\ ~isDone(rawRows[2])
    /\ DepIds(rawRows[2]) = {rawRows[1].id}
    /\ actionable(rawRows) = {rawRows[2].id}

(***************************************************************************)
(* C2: a row that lists a dependency id that no row has is outside the     *)
(* actionable set in every reachable state, whatever has been toggled.     *)
(***************************************************************************)
C2_MissingDepNeverActionable ==
    \A i \in DOMAIN rawRows :
        (\E d \in DepIds(rawRows[i]) : d \notin rowIds(rawRows))
            => rawRows[i].id \notin actionable(rawRows)

\* A row with a missing dependency is not done while every other row, and
\* so every dependency of it that exists, has been toggled to done.
C2_Witness ==
    \E i \in DOMAIN rawRows :
        /\ \E d \in DepIds(rawRows[i]) : d \notin rowIds(rawRows)
        /\ \E d \in DepIds(rawRows[i]) : d \in rowIds(rawRows)
        /\ ~isDone(rawRows[i])
        /\ \A j \in DOMAIN rawRows : j # i => isDone(rawRows[j])

(***************************************************************************)
(* C3, as stated: if the dependencies among the rows contain a cycle, then *)
(* in every reachable state every row on the cycle is outside the          *)
(* actionable set.                                                         *)
(***************************************************************************)
C3_CycleNeverActionable ==
    \A i \in DOMAIN rawRows :
        OnCycle(rawRows, i) => rawRows[i].id \notin actionable(rawRows)

(***************************************************************************)
(* C3, amended: a row on a cycle is outside the actionable set in every    *)
(* reachable state in which no row of its cycle is done; a row that        *)
(* depends on itself is outside it in every state.                         *)
(***************************************************************************)
C3_CycleNotActionableWhileUndone ==
    \A i \in DOMAIN rawRows :
        /\ (OnCycle(rawRows, i) /\ \A j \in CycleOf(rawRows, i) : ~isDone(rawRows[j]))
              => rawRows[i].id \notin actionable(rawRows)
        /\ DependsOn(rawRows, i, i) => rawRows[i].id \notin actionable(rawRows)

\* A two-row cycle with neither row done, after the store has been toggled
\* (an explicit "todo" next to a row whose cell the load defaulted).
C3_Witness ==
    \E i \in DOMAIN rawRows :
        /\ OnCycle(rawRows, i)
        /\ Cardinality(CycleOf(rawRows, i)) = 2
        /\ \A j \in CycleOf(rawRows, i) : ~isDone(rawRows[j])
        /\ handlerRows # <<>>
        /\ \E j \in DOMAIN handlerRows : isDone(handlerRows[j])

(***************************************************************************)
(* C4: the graph builder emits an edge d -> r exactly when r is a visible  *)
(* row, d is one of r's dependency ids and d is the id of a visible row;   *)
(* so every edge of the built and of the displayed graph has both ends in  *)
(* the node set, and hiding an end removes the edge.                       *)
(***************************************************************************)
C4_EdgesIffBothVisible ==
    /\ edgePairs(edgesBuilt(rawRows)) =
          {p \in rowIds(rawRows) \X rowIds(rawRows) :
              /\ \E r \in Range(visibleRows(rawRows)) : r.id = p[2] /\ p[1] \in DepIds(r)
              /\ \E r \in Range(visibleRows(rawRows)) : r.id = p[1]}
    /\ edgePairs(edgesBuilt(rawRows)) \subseteq
          nodeIds(nodesBuilt(rawRows)) \X nodeIds(nodesBuilt(rawRows))
    /\ edgePairs(edges) \subseteq nodeIds(nodes) \X nodeIds(nodes)

\* Scenario 2: a displayed row depends on a row that a filter hides, and no
\* edge is displayed.
C4_Witness ==
    /\ nodes # <<>>
    /\ edges = <<>>
    /\ handlerRows = rawRows
    /\ \E i \in DOMAIN nodes : \E d \in DepIds(nodes[i].r) :
          d \in rowIds(rawRows) /\ d \notin nodeIds(nodes)

(***************************************************************************)
(* C5: the built edge list holds at most one edge per ordered pair         *)
(* (dependency id, dependent id), so the edge ids are unique in it, also   *)
(* for a row whose depends_on cell names the same id twice.                *)
(***************************************************************************)
C5_EdgeIdsUnique ==
    LET es == edgesBuilt(rawRows)
    IN  \A i, j \in DOMAIN es :
            (es[i].id = es[j].id \/ <<es[i].source, es[i].target>> = <<es[j].source, es[j].target>>)
                => i = j

(***************************************************************************)
(* C6, as stated: for every filter state, the actionable-only flag in      *)
(* either position, filtering gives a sub-list of the rows, and filtering  *)
(* the output again (done and actionable sets computed from the list being *)
(* filtered) returns the same list.                                        *)
(***************************************************************************)
C6_FilterIdempotent ==
    /\ IsSubList(visibleRows(rawRows), rawRows)
    /\ visibleRows(visibleRows(rawRows)) = visibleRows(rawRows)

(***************************************************************************)
(* C6, amended: filtering gives a sub-list of the rows for every filter    *)
(* state, and filtering the output again returns the same list whenever    *)
(* the actionable-only flag is off; with the flag on the second pass still *)
(* returns a sub-list of the first.                                        *)
(***************************************************************************)
C6_FilterIdempotentFlagOff ==
    /\ IsSubList(visibleRows(rawRows), rawRows)
    /\ ~onlyNextActionable =>
          visibleRows(visibleRows(rawRows)) = visibleRows(rawRows)
    /\ IsSubList(visibleRows(visibleRows(rawRows)), visibleRows(rawRows))

\* The flag is off and the filter keeps some rows and drops others, among
\* the kept ones a row whose dependency is a done row.
C6_Witness ==
    /\ ~onlyNextActionable
    /\ visibleRows(rawRows) # <<>>
    /\ visibleRows(rawRows) # rawRows
    /\ \E r \in Range(visibleRows(rawRows)) :
          /\ DepIds(r) # {}
          /\ r.id \in actionable(rawRows)

(***************************************************************************)
(* C7: from any reachable state and for any row on display, toggling its   *)
(* completion to the opposite value and then back, the filters and the     *)
(* direction unchanged, gives the actionable set, the visible node set and *)
(* the edge set of before the first toggle.  The first toggle is the       *)
(* displayed node's handler; the graph is then laid out again, and the     *)
(* second toggle is the handler of the node rebuilt from the new store.    *)
(***************************************************************************)
C7_ToggleRoundTrip ==
    \A i \in DOMAIN nodes :
        LET checked == isDone(nodes[i].r)
            first == onChange(handlerRows, nodes[i].id, ~checked)
            back == onChange(first, nodes[i].id, checked)
        IN  (/\ \E k \in DOMAIN rawRows :
                   rawRows[k].id = nodes[i].id /\ isDone(rawRows[k]) = checked
             /\ nodes[i].id \in visibleIds(first)
             /\ selectedSections # {})
            => /\ actionable(back) = actionable(rawRows)
               /\ visibleIds(back) = visibleIds(rawRows)
               /\ edgePairs(edgesBuilt(back)) = edgePairs(edgesBuilt(rawRows))

(***************************************************************************)
(* C8: toggling the row with id i to value b sets that row's status to     *)
(* "done" or "todo" and changes nothing else in the row store: the other   *)
(* rows keep all their fields, row i keeps its other fields, and the       *)
(* number and the order of the rows stay.                                  *)
(***************************************************************************)
C8_ToggleFrame ==
    [][\A i \in DOMAIN nodes :
          Checkbox(i) =>
              /\ Len(rawRows') = Len(rawRows)
              /\ \A k \in DOMAIN rawRows :
                    rawRows'[k] =
                        IF rawRows[k].id = nodes[i].id
                        THEN [rawRows[k] EXCEPT
                                 !.status = IF isDone(nodes[i].r) THEN TODO ELSE DONE]
                        ELSE rawRows[k]]_vars

(***************************************************************************)
(* C9: once the persist step has run on a loaded data source, the stored   *)
(* map holds for every row id its current status, and loading the same     *)
(* data source again (fresh rows merged with the stored map by id) gives   *)
(* every row the status it has now.                                        *)
(***************************************************************************)
C9_PersistRoundTrip ==
    (/\ rawRows # <<>>
     /\ dirty = {}
     /\ csvUrl \notin loading
     /\ Len(rawRows) = Len(files[csvUrl])
     /\ \A i \in DOMAIN rawRows : rawRows[i].id = loadedRow(files[csvUrl][i]).id) =>
        LET saved == JSONparse(getItem(localStorage, localKey(csvUrl)))
            again == loadResult(csvUrl, localStorage)
        IN  /\ \A i \in DOMAIN rawRows :
                  getProp(saved, rawRows[i].id) = rawRows[i].status
            /\ Len(again) = Len(rawRows)
            /\ \A i \in DOMAIN rawRows :
                  again[i].id = rawRows[i].id /\ again[i].status = rawRows[i].status

(***************************************************************************)
(* C10: the default of the selected sections to all sections is applied    *)
(* once, when data first loads; after that no event makes the effect       *)
(* overwrite the selection with the full list again.                       *)
(***************************************************************************)
C10_DefaultAppliedOnce ==
    [][sectionsDefaulted => ~(RunEffects /\ defaultSectionsFires)]_vars

(***************************************************************************)
(* Vocabulary of the layout properties.                                    *)
(***************************************************************************)
\* b is reached from a along at least one and at most n pairs of P
RECURSIVE PairPath(_, _, _, _)
PairPath(P, a, b, n) ==
    /\ n > 0
    /\ \/ <<a, b>> \in P
       \/ \E p \in P : p[1] = a /\ PairPath(P, p[2], b, n - 1)

AcyclicPairs(P) ==
    \A p \in P : ~PairPath(P, p[2], p[1], Cardinality(P)) /\ p[1] # p[2]

positionOf(ns, id) == ns[CHOOSE i \in DOMAIN ns : ns[i].id = id].position

\* the rank-axis coordinate of a position
rankAxis(pos, dir) == IF dir = "LR" THEN pos.x ELSE pos.y

\* every edge of es runs forward on the rank axis among the nodes ns
ForwardEdges(ns, es, dir) ==
    \A i \in DOMAIN es :
        rankAxis(positionOf(ns, es[i].source), dir)
            < rankAxis(positionOf(ns, es[i].target), dir)

(***************************************************************************)
(* C11: for every non-empty acyclic visible subgraph the layout places the *)
(* source of each edge strictly before its target on the rank axis: x for  *)
(* direction "LR", y for direction "TB".  Stated of the layout of the      *)
(* current rows and filters and of the graph on display.                   *)
(***************************************************************************)
C11_SourceBeforeTarget ==
    /\ AcyclicPairs(edgePairs(edgesBuilt(rawRows))) =>
          ForwardEdges(laidOutNodes(nodesBuilt(rawRows), edgesBuilt(rawRows), layoutDir),
                       edgesBuilt(rawRows), layoutDir)
    /\ (AcyclicPairs(edgePairs(edges)) /\ dirty = {}) =>
          ForwardEdges(nodes, edges, layoutDir)

\* Scenario 4 in the vertical direction: the chain A -> B -> C is on
\* display after the direction was changed, with y(A) < y(B) < y(C).
C11_Witness ==
    /\ layoutDir = "TB"
    /\ dirty = {}
    /\ Len(nodes) = 3
    /\ edgePairs(edges) = {<<nodes[1].id, nodes[2].id>>, <<nodes[2].id, nodes[3].id>>}
    /\ nodes[1].position.y < nodes[2].position.y
    /\ nodes[2].position.y < nodes[3].position.y
    /\ nodes[1].targetPosition = "Top"

(***************************************************************************)
(* C12: the build-and-layout pipeline is total.  For every reachable row   *)
(* set (cycles, self-dependencies and absent dependency ids included),     *)
(* filter state and direction, every node of the graph handed to the       *)
(* layout was given its box, so the layout is defined, the layout assigns  *)
(* a position to every visible row, and once the effects have run the      *)
(* graph on display has a positioned node for every visible row.           *)
(***************************************************************************)
C12_PipelineTotal ==
    LET built == nodesBuilt(rawRows)
        es == edgesBuilt(rawRows)
        total(dir) ==
            LET g == dagreInput(built, es, dir)
                laid == laidOutNodes(built, es, dir)
            IN  /\ graphNodes(g) = Range(g.labelled)
                /\ Len(laid) = Len(visibleRows(rawRows))
                /\ \A i \in DOMAIN laid :
                      /\ laid[i].id = visibleRows(rawRows)[i].id
                      /\ laid[i].position.x \in Nat
                      /\ laid[i].position.y \in Nat
    IN  /\ total("LR")
        /\ total("TB")
        /\ dirty = {} =>
              /\ Len(nodes) = Len(visibleRows(rawRows))
              /\ \A i \in DOMAIN nodes :
                    /\ nodes[i].id = visibleRows(rawRows)[i].id
                    /\ nodes[i].position.x \in Nat
                    /\ nodes[i].position.y \in Nat

\* A two-row cycle is on display, both rows positioned, while a row of it
\* also names a dependency id that no row has or the other row names
\* itself.
C12_Witness ==
    /\ dirty = {}
    /\ Len(nodes) = 2
    /\ <<nodes[1].id, nodes[2].id>> \in edgePairs(edges)
    /\ <<nodes[2].id, nodes[1].id>> \in edgePairs(edges)
    /\ nodes[1].position # nodes[2].position
    /\ \E i \in DOMAIN rawRows :
          \E d \in DepIds(rawRows[i]) : d \notin rowIds(rawRows) \/ d = rawRows[i].id

(***************************************************************************)
(* Vocabulary of the filter properties: each predicate stated on its own.  *)
(***************************************************************************)
\* the non-empty trimmed texts between the pipes of a cell
CellItems(c) ==
    LET stretch(i, j) ==
            /\ i = 1 \/ c[i - 1] = Pipe
            /\ j = Len(c) \/ c[j + 1] = Pipe
            /\ \A k \in i..j : c[k] # Pipe
    IN  {trim(SubSeq(c, i, j)) : <<i, j>> \in
            {p \in (1..Len(c)) \X (1..Len(c)) : p[1] <= p[2] /\ stretch(p[1], p[2])}}
        \ {<<>>}

PassesStatus(r) ==
    \/ statusFilter = "all"
    \/ statusFilter = "todo" /\ ~isDone(r)
    \/ statusFilter = "done" /\ isDone(r)

PassesStage(r) == r.stage \in selectedStages

PassesSection(r) ==
    \/ r.section # <<>> /\ r.section \in selectedSections
    \/ r.section = <<>> /\ General \in selectedSections

PassesTags(r) == selectedTags = {} \/ CellItems(r.tags) \cap selectedTags # {}

\* the lower-cased query is empty or a piece of the lower-cased title,
\* description, section, stage and tags written one after the other with a
\* space between
PassesSearch(r) ==
    LET low(t) == [i \in 1..Len(t) |-> toLowerCase(t[i])]
        hay == low(r.title) \o <<Space>> \o low(r.description) \o <<Space>>
                 \o low(r.section) \o <<Space>> \o low(r.stage) \o <<Space>>
                 \o low(r.tags)
    IN  \/ query = <<>>
        \/ \E i \in 1..Len(hay) : \E j \in i..Len(hay) : SubSeq(hay, i, j) = low(query)

IsActionable(rows, r) ==
    /\ ~isDone(r)
    /\ \A d \in DepIds(r) : \E k \in DOMAIN rows : rows[k].id = d /\ isDone(rows[k])

PassesActionable(rows, r) == ~onlyNextActionable \/ IsActionable(rows, r)

idsWhere(rows, P(_)) == {rows[i].id : i \in {j \in DOMAIN rows : P(rows[j])}}

(***************************************************************************)
(* C13: a row is visible iff it passes the status predicate and its stage  *)
(* is selected and its section (or "General") is selected and (no tag is   *)
(* selected or it has a selected tag) and it matches the query and (the    *)
(* actionable-only flag is off or the row is actionable); the visible set  *)
(* is the intersection of the sets each predicate gives alone.             *)
(***************************************************************************)
C13_VisibleIsConjunction ==
    LET act(r) == PassesActionable(rawRows, r)
        all(r) == /\ PassesStatus(r) /\ PassesStage(r) /\ PassesSection(r)
                  /\ PassesTags(r) /\ PassesSearch(r) /\ act(r)
    IN  /\ visibleRows(rawRows) = SelectSeq(rawRows, all)
        /\ visibleIds(rawRows) =
              idsWhere(rawRows, PassesStatus) \cap idsWhere(rawRows, PassesStage)
                \cap idsWhere(rawRows, PassesSection) \cap idsWhere(rawRows, PassesTags)
                \cap idsWhere(rawRows, PassesSearch) \cap idsWhere(rawRows, act)

\* A tag is selected and a query typed; one row passes both and is shown,
\* another row fails a predicate and is hidden.
C13_Witness ==
    /\ selectedTags # {}
    /\ query # <<>>
    /\ visibleRows(rawRows) # <<>>
    /\ Len(visibleRows(rawRows)) < Len(rawRows)
    /\ dirty = {}
    /\ nodeIds(nodes) = visibleIds(rawRows)

(***************************************************************************)
(* C14: filter operations have no effect on data.  A change of the query,  *)
(* the status selector, the selected stages, sections or tags or the       *)
(* actionable-only flag, and a reset of the filters, leave every row of    *)
(* the row store and the stored status maps as they are; so do the effects *)
(* that run when only filter values have changed.                          *)
(***************************************************************************)
C14_FiltersLeaveData ==
    [][(\/ \E q \in Queries : setQuery(q)
        \/ \E v \in {"all", "todo", "done"} : setStatusFilter(v)
        \/ \E v \in BOOLEAN : setOnlyNextActionable(v)
        \/ \E st \in Range(STAGE_ORDER) : StageChip(st)
        \/ \E sec \in allSections(rawRows) : SectionChip(sec)
        \/ SectionAll
        \/ SectionNone
        \/ \E t \in allTags(rawRows) : TagChip(t)
        \/ TagsClear
        \/ resetFilters
        \/ (RunEffects /\ dirty = {"view"}))
            => (rawRows' = rawRows /\ localStorage' = localStorage)]_vars

\* A row has been toggled to done and persisted, then the filters were
\* changed and the effects have run: the store and the map still agree.
C14_Witness ==
    /\ dirty = {}
    /\ uiOps > 0
    /\ statusFilter = "done"
    /\ nodes # <<>>
    /\ \E i \in DOMAIN rawRows :
          /\ isDone(rawRows[i])
          /\ files[csvUrl][i].status # DONE
          /\ getProp(JSONparse(getItem(localStorage, localKey(csvUrl))), rawRows[i].id) = DONE

(***************************************************************************)
(* Vocabulary of the snapshot properties: the graph of a row list under    *)
(* the filter values of the state, stated without the builder's helpers.   *)
(***************************************************************************)
ShownRow(rows, r) ==
    /\ PassesStatus(r) /\ PassesStage(r) /\ PassesSection(r)
    /\ PassesTags(r) /\ PassesSearch(r) /\ PassesActionable(rows, r)

\* ns and es are the graph of rows under the filter values and direction
\* of the state: a node per shown row, in order, carrying that row and the
\* handle sides of the direction, and an edge per dependency between two
\* shown rows
GraphOf(ns, es, rows) ==
    LET shown(r) == ShownRow(rows, r)
        kept == SelectSeq(rows, shown)
    IN  /\ Len(ns) = Len(kept)
        /\ \A i \in DOMAIN ns :
              /\ ns[i].r = kept[i]
              /\ ns[i].id = kept[i].id
              /\ ns[i].sourcePosition = (IF layoutDir = "LR" THEN "Right" ELSE "Bottom")
        /\ edgePairs(es) =
              {p \in rowIds(kept) \X rowIds(kept) :
                  \E i \in DOMAIN kept : kept[i].id = p[2] /\ p[1] \in DepIds(kept[i])}

(***************************************************************************)
(* C15: consistent snapshot, last state wins.  Whenever the displayed      *)
(* nodes or edges change, both become the graph of the one row store,      *)
(* filter state and direction of the state the step started in (or the     *)
(* empty graph of a fresh mount), never rows of one state with filter      *)
(* values of another; when no change is pending the display is the graph   *)
(* of the current state; and a pending change is eventually displayed.     *)
(***************************************************************************)
C15_ConsistentSnapshot ==
    /\ [][(nodes' # nodes \/ edges' # edges) =>
            \/ (GraphOf(nodes', edges', rawRows) /\ handlerRows' = rawRows)
            \/ (nodes' = <<>> /\ edges' = <<>> /\ rawRows' = <<>>)]_vars
    /\ [](dirty = {} => GraphOf(nodes, edges, rawRows))
    /\ (dirty # {} ~> dirty = {})

\* A toggle and two filter or direction changes are all on display: the
\* direction is vertical, only actionable rows are shown, one of them
\* depends on a row that was toggled to done and is now hidden.
C15_Witness ==
    /\ dirty = {}
    /\ layoutDir = "TB"
    /\ onlyNextActionable
    /\ nodes # <<>>
    /\ nodes[1].sourcePosition = "Bottom"
    /\ \E i \in DOMAIN nodes : \E d \in DepIds(nodes[i].r) :
          \E k \in DOMAIN rawRows :
              rawRows[k].id = d /\ isDone(rawRows[k]) /\ files[csvUrl][k].status # DONE

(***************************************************************************)
(* C16: every row held in the row store after a load has an id that is     *)
(* non-empty after trimming, and so has every node of the built graph: a   *)
(* record whose id cell is missing, empty or blank never becomes a row.    *)
(***************************************************************************)
C16_IdsNonEmpty ==
    /\ \A i \in DOMAIN rawRows : trim(rawRows[i].id) # <<>>
    /\ \A i \in DOMAIN nodesBuilt(rawRows) : trim(nodesBuilt(rawRows)[i].id) # <<>>

(***************************************************************************)
(* C17: load-time defaulting.  Every row a load puts in the row store has  *)
(* a non-empty stage and a non-empty status; a record whose stage cell is  *)
(* missing, empty or blank is stored with stage "Unsorted"; one whose      *)
(* status cell is missing, empty or blank is stored with status "todo"     *)
(* unless the stored map holds an override for its id; with no stored map  *)
(* no row is overridden.                                                   *)
(***************************************************************************)
C17_LoadDefaults ==
    [][\A u \in Urls :
          LoadComplete(u) =>
              LET saved == JSONparse(getItem(localStorage, localKey(u)))
              IN  /\ Len(rawRows') = Len(files[u])
                  /\ \A i \in DOMAIN files[u] :
                        LET cell == files[u][i]
                            row == rawRows'[i]
                            override == getProp(saved, row.id)
                        IN  /\ row.stage # <<>>
                            /\ row.status # <<>>
                            /\ trim(cell.stage) = <<>> => row.stage = Unsorted
                            /\ (trim(cell.status) = <<>> /\ override = <<>>)
                                  => row.status = TODO
                            /\ override # <<>> => row.status = override
                            /\ (override = <<>> /\ trim(cell.status) # <<>>)
                                  => row.status = trim(cell.status)]_vars

(***************************************************************************)
(* C18: the status selector partitions the rows.  With the other filter    *)
(* values fixed, the rows visible under "todo" and those visible under     *)
(* "done" are disjoint and together are the rows visible under "all"; a    *)
(* row whose status is any text other than "done" is on the "todo" side,   *)
(* as it is not done for the actionable computation.                       *)
(***************************************************************************)
C18_StatusPartition ==
    LET others(r) ==
            /\ PassesStage(r) /\ PassesSection(r) /\ PassesTags(r)
            /\ PassesSearch(r) /\ PassesActionable(rawRows, r)
        under(filter) ==
            {rawRows[i].id : i \in {j \in DOMAIN rawRows :
                statusPasses(filter, rawRows[j]) /\ others(rawRows[j])}}
    IN  /\ visibleIds(rawRows) = under(statusFilter)
        /\ under("todo") \cap under("done") = {}
        /\ under("todo") \cup under("done") = under("all")
        /\ \A i \in DOMAIN rawRows :
              /\ ~isDone(rawRows[i]) =>
                    /\ statusPasses("todo", rawRows[i])
                    /\ ~statusPasses("done", rawRows[i])
                    /\ rawRows[i].id \notin completed(rawRows)
              /\ isDone(rawRows[i]) =>
                    /\ statusPasses("done", rawRows[i])
                    /\ ~statusPasses("todo", rawRows[i])
                    /\ rawRows[i].id \in completed(rawRows)

\* The selector is on "todo": a row whose status is neither "todo" nor
\* "done" is on display, and a done row is hidden.
C18_Witness ==
    /\ statusFilter = "todo"
    /\ dirty = {}
    /\ \E i \in DOMAIN nodes : nodes[i].r.status \notin {TODO, DONE}
    /\ \E i \in DOMAIN rawRows :
          isDone(rawRows[i]) /\ rawRows[i].id \notin nodeIds(nodes)

(***************************************************************************)
(* C19: no lost update on toggles.  Whatever re-render and re-layout steps *)
(* lie between two toggles, a toggle never reverts the status that an      *)
(* earlier toggle gave another row: every row other than the toggled one   *)
(* has, after the toggle, the status the row store held for it before.     *)
(***************************************************************************)
C19_NoLostUpdate ==
    [][\A i \in DOMAIN nodes :
          Checkbox(i) =>
              \A k \in DOMAIN rawRows :
                  rawRows[k].id # nodes[i].id =>
                      \E m \in DOMAIN rawRows' :
                          /\ rawRows'[m].id = rawRows[k].id
                          /\ rawRows'[m].status = rawRows[k].status]_vars

(***************************************************************************)
(* Vocabulary of the persistence properties.                               *)
(***************************************************************************)
\* rows are the rows of data source u, whatever their statuses
LoadedFrom(rows, u) ==
    /\ Len(rows) = Len(files[u])
    /\ \A i \in DOMAIN rows :
          [rows[i] EXCEPT !.status = <<>>]
              = [loadedRow(files[u][i]) EXCEPT !.status = <<>>]

(***************************************************************************)
(* C20: persistence is isolated per data source.  The status map stored    *)
(* under the key of data source u is only ever written from rows that were *)
(* loaded from u: no step, in particular none after the component's data   *)
(* source changed, writes the statuses of another source's rows there.     *)
(***************************************************************************)
C20_PersistIsolated ==
    [][\A u \in Urls :
          getItem(localStorage', localKey(u)) # getItem(localStorage, localKey(u))
              => LoadedFrom(rawRows, u)]_vars

C22_OutsideEnumNeverVisible ==
    /\ selectedStages \subseteq Range(STAGE_ORDER)
    /\ \A i \in DOMAIN visibleRows(rawRows) :
          visibleRows(rawRows)[i].stage \in Range(STAGE_ORDER)
    /\ \A i \in DOMAIN nodes : nodes[i].r.stage \in Range(STAGE_ORDER)

\* The rows hold one defaulted to "Unsorted", a stage chip has been
\* unchecked, the effects have run, and another row is displayed.
C22_Witness ==
    /\ \E i \in DOMAIN rawRows : rawRows[i].stage = Unsorted
    /\ dirty = {}
    /\ uiOps > 0
    /\ selectedStages # Range(STAGE_ORDER)
    /\ selectedStages # {}
    /\ nodes # <<>>
    /\ handlerRows = rawRows

(***************************************************************************)
(* C23: with the actionable-only flag set and unique row ids, the built    *)
(* edge list is empty: a visible row is actionable, so each dependency it  *)
(* names is done, hence not actionable and not visible.  Whenever no       *)
(* change is pending the displayed edge list is empty too.                 *)
(***************************************************************************)
UniqueIds(rows) ==
    \A i, j \in DOMAIN rows : rows[i].id = rows[j].id => i = j

C23_ActionableOnlyNoEdges ==
    (onlyNextActionable /\ UniqueIds(rawRows)) =>
        /\ edgesBuilt(rawRows) = <<>>
        /\ dirty = {} => edges = <<>>

\* The flag is set, the effects have run, and a displayed row names a
\* dependency that is a done row of the store passing every other filter:
\* the edge between them would be drawn if the flag were off.
C23_Witness ==
    /\ onlyNextActionable
    /\ UniqueIds(rawRows)
    /\ dirty = {}
    /\ edges = <<>>
    /\ \E i \in DOMAIN nodes : \E j \in DOMAIN rawRows :
          /\ rawRows[j].id \in DepIds(nodes[i].r)
          /\ isDone(rawRows[j])
          /\ PassesStatus(rawRows[j]) /\ PassesStage(rawRows[j])
          /\ PassesSection(rawRows[j]) /\ PassesTags(rawRows[j])
          /\ PassesSearch(rawRows[j])

(***************************************************************************)
(* C24: changing the layout direction leaves the row store, the stored     *)
(* status maps, the filter state, the displayed node ids and the displayed *)
(* edges unchanged.  The Layout select changes nothing but the direction;  *)
(* the effects that run when only the direction has changed keep the       *)
(* nodes' ids and rows and the edges, and give every node the handle sides *)
(* of the direction: Right/Left for "LR", Bottom/Top for "TB".             *)
(***************************************************************************)
C24_DirectionChangeFrame ==
    [][/\ (layoutDir' # layoutDir /\ batch' = batch + 1) =>
             /\ rawRows' = rawRows
             /\ localStorage' = localStorage
             /\ filterVars' = filterVars
             /\ nodes' = nodes
             /\ edges' = edges
       /\ (dirty = {"layoutDir"} /\ dirty' = {} /\ uiOps' = uiOps) =>
             /\ rawRows' = rawRows
             /\ localStorage' = localStorage
             /\ filterVars' = filterVars
             /\ edges' = edges
             /\ Len(nodes') = Len(nodes)
             /\ \A i \in DOMAIN nodes :
                   /\ nodes'[i].id = nodes[i].id
                   /\ nodes'[i].r = nodes[i].r
                   /\ nodes'[i].sourcePosition =
                         (IF layoutDir = "LR" THEN "Right" ELSE "Bottom")
                   /\ nodes'[i].targetPosition =
                         (IF layoutDir = "LR" THEN "Left" ELSE "Top")]_vars

\* The one thing the user has done is to select "TB", and the effects have
\* run: an edge is displayed, its ends have the Bottom/Top handles, and the
\* target now lies below the source instead of to its right.
C24_Witness ==
    /\ layoutDir = "TB"
    /\ uiOps = 1
    /\ dirty = {}
    /\ \E k \in DOMAIN edges :
          /\ positionOf(nodes, edges[k].source).y < positionOf(nodes, edges[k].target).y
          /\ positionOf(nodes, edges[k].source).x = positionOf(nodes, edges[k].target).x
    /\ \A i \in DOMAIN nodes :
          nodes[i].sourcePosition = "Bottom" /\ nodes[i].targetPosition = "Top"

(***************************************************************************)
(* C25: actionability is monotone in completion.  With unique ids, a       *)
(* toggle of row r to done removes no row other than r from the actionable *)
(* set, a toggle of r to todo adds no row other than r to it, and the only *)
(* rows whose actionability a toggle of r changes are r and the rows that  *)
(* list r as a dependency.                                                 *)
(***************************************************************************)
C25_ActionableMonotone ==
    [][\A i \in DOMAIN nodes :
          (Checkbox(i) /\ UniqueIds(rawRows)) =>
              LET r == nodes[i].id
                  toDone == ~isDone(nodes[i].r)
                  before == actionable(rawRows)
                  after == actionable(rawRows')
              IN  /\ toDone => (before \ {r}) \subseteq after
                  /\ ~toDone => (after \ {r}) \subseteq before
                  /\ \A k \in DOMAIN rawRows :
                        ((rawRows[k].id \in before) # (rawRows[k].id \in after))
                            => \/ rawRows[k].id = r
                               \/ r \in DepIds(rawRows[k])]_vars

=============================================================================
